---- MODULE Spec2Model ----
(***************************************************************************)
(* Model of git-viewer's commit-graph layout, computeGraph in              *)
(* src/server.ts.  One behaviour is one call of computeGraph: the input    *)
(* rows are consumed one at a time, and every row is processed in the      *)
(* order of the statements of the loop body (resolve and occupy the lane,  *)
(* pass-through lines, parents, push).  Lane indices are 0-based as in     *)
(* the source; lanes is a sequence, so lane i is lanes[i + 1].             *)
(***************************************************************************)
EXTENDS Integers, Sequences, FiniteSets, TLC

\* Bounds of the model: commit identifiers, input rows, parents of one commit.
NumIds == 3
MaxRows == 3
MaxParents == 2

\* Bounds of the palette model: rows and parents per row of a history that
\* uses up the palette.
PaletteRows == 3

PaletteParents == 3

\* Bound of the client model: calls of setFilter and setSearch.
MaxCalls == 3

\* Bound of the getCommits model: rows of one git log output.
MaxFetched == 2

\* A free slot of the lane table (null in the source).
NULL == 0

\* let graphColors = [0, 1, 2, 3, 4, 5, 6, 7]
graphColors == <<0, 1, 2, 3, 4, 5, 6, 7>>

VARIABLES
    rawCommits,          \* the input rows consumed so far: [sha, parents]
    lanes,               \* lanes[i + 1] = sha that owns lane i, or NULL
    shaToLane,           \* Map sha -> lane
    shaToColor,          \* Map sha -> colour
    shaAssignedByParent, \* Set of shas that were given a lane by a child
    colorIndex,
    maxLane,
    commits,             \* the output rows: [sha, parents, graph]
    lane,                \* locals of the loop body
    isFirstInLane,
    color,
    graphLines,
    i,                   \* index of the loop over the other parents
    pc,                  \* position in computeGraph
    written,             \* history: lane indices that were written with a sha
    maxOccupied,         \* history: most slots held at the same moment
    fetched,             \* getCommits: the parsed rows of git log (rawCommits there)
    search,              \* getCommits: the search string
    filteredCommits,     \* the list a caller passes to computeGraph
    results,             \* what the earlier calls of computeGraph returned
    currentPort,         \* server start-up: the port of the last tryListen
    serverState,         \* "created", "binding", "listening" or "exited"
    exitCode,            \* the status process.exit was called with, or NULL
    errCode,             \* err.code of the last 'error' event, or "none"
    tried,               \* history: the ports passed to server.listen, in order
    inUse,               \* history: the ports that failed with EADDRINUSE
    state,               \* client: the global state object
    inFlight,            \* client: the calls waiting for their fetch
    issued               \* history: the requests of setFilter and setSearch

vars == <<rawCommits, lanes, shaToLane, shaToColor, shaAssignedByParent,
          colorIndex, maxLane, commits, lane, isFirstInLane, color,
          graphLines, i, pc, written, maxOccupied,
          fetched, search, filteredCommits, results,
          currentPort, serverState, exitCode, errCode, tried, inUse,
          state, inFlight, issued>>

\* The state of the callers of computeGraph
callerVars == <<fetched, search, filteredCommits, results>>

\* The state of the server's start-up
serverVars == <<currentPort, serverState, exitCode, errCode, tried, inUse>>

\* The state of the client
clientVars == <<state, inFlight, issued>>

\* What computeGraph and getCommits do not touch
processVars == <<serverVars, clientVars>>

\* let startPort = 44100
startPort == 44100

\* let maxPort = 44200
maxPort == 44200

\* The values of the filter (all, the current branch, a named ref) and of
\* the search box
Filters == {"all", "local", "dev"}

Searches == {"", "fix"}

\* What GET /api/commits answers for a ref and a search string: the rows and
\* the width of getCommits(ref, search), named by the request they answer
Response(ref, srch) ==
    [commits |-> <<"commits", ref, srch>>, maxLane |-> <<"maxLane", ref, srch>>]

\* let state = {...} after the initial load of App has been applied
InitClient ==
    /\ state = [refs |-> [currentBranch |-> "main"],
                commits |-> Response("all", "").commits,
                maxLane |-> Response("all", "").maxLane,
                filter |-> "all",
                search |-> "",
                loading |-> FALSE]
    /\ inFlight = {}
    /\ issued = <<>>

\* let currentPort = startPort; http.createServer(...): not listening yet
InitServer ==
    /\ currentPort = startPort
    /\ serverState = "created"
    /\ exitCode = NULL
    /\ errCode = "none"
    /\ tried = <<>>
    /\ inUse = {}

Ids == 1..NumIds

Range(s) == {s[k] : k \in DOMAIN s}

Max(a, b) == IF a >= b THEN a ELSE b

\* The shas of the rows of an input
Shas(rc) == {rc[k].sha : k \in DOMAIN rc}

\* Every identifier an input mentions, as a commit or as a parent
Mentioned(rc) == UNION {{rc[k].sha} \cup Range(rc[k].parents) : k \in DOMAIN rc}

\* Identifiers are opaque strings that the code only compares for equality,
\* so inputs are enumerated up to renaming: an identifier not mentioned
\* before is the least unused one.
RECURSIVE InOrder(_, _)
InOrder(s, k) ==
    IF s = <<>> THEN TRUE
    ELSE IF Head(s) <= k THEN InOrder(Tail(s), k)
    ELSE Head(s) = k + 1 /\ InOrder(Tail(s), k + 1)

\* The rows git log can emit next: a commit not listed before (in any
\* order with respect to its parents), with up to MaxParents distinct
\* parents other than itself, which may or may not be listed later.
RawCommit(rc, sha, parents) ==
    /\ sha \in Ids \ Shas(rc)
    /\ Len(parents) <= MaxParents
    /\ sha \notin Range(parents)
    /\ \A a, b \in DOMAIN parents : a # b => parents[a] # parents[b]
    /\ InOrder(<<sha>> \o parents, Cardinality(Mentioned(rc)))

ParentLists == UNION {[1..n -> Ids] : n \in 0..MaxParents}

\* Array.prototype.findIndex(l => l === null), scanning from index 0
RECURSIVE findIndexFrom(_, _)
findIndexFrom(ls, k) ==
    IF k >= Len(ls) THEN -1
    ELSE IF ls[k + 1] = NULL THEN k
    ELSE findIndexFrom(ls, k + 1)

\* findIndex that never finds a free slot: every allocation appends
findIndexAppendOnly(ls) == -1

findIndex(ls) == findIndexFrom(ls, 0)

\* shaToColor.get(x) ?? 0
colorOf(x) == IF x \in DOMAIN shaToColor THEN shaToColor[x] ELSE 0

\* graphColors[colorIndex] without the modulo: undefined past the palette
nextColorNoWrap ==
    IF colorIndex < Len(graphColors) THEN graphColors[colorIndex + 1] ELSE -1

\* graphColors[colorIndex % graphColors.length]
nextColor == graphColors[(colorIndex % Len(graphColors)) + 1]

Occupied(ls) == Cardinality({k \in DOMAIN ls : ls[k] # NULL})

\* The row being processed
raw == rawCommits[Len(rawCommits)]

\* the state of a call with let maxLane = -1, a sentinel for "no lane"
InitMaxLaneSentinel ==
    /\ rawCommits = <<>>
    /\ lanes = <<>>
    /\ shaToLane = <<>>
    /\ shaToColor = <<>>
    /\ shaAssignedByParent = {}
    /\ colorIndex = 0
    /\ maxLane = -1
    /\ commits = <<>>
    /\ lane = 0
    /\ isFirstInLane = FALSE
    /\ color = 0
    /\ graphLines = <<>>
    /\ i = 0
    /\ pc = "row"
    /\ written = {}
    /\ maxOccupied = 0
    /\ fetched = <<>>
    /\ search = <<>>
    /\ filteredCommits = <<>>
    /\ results = <<>>
    /\ InitServer
    /\ InitClient

Init ==
    /\ rawCommits = <<>>
    /\ lanes = <<>>
    /\ shaToLane = <<>>
    /\ shaToColor = <<>>
    /\ shaAssignedByParent = {}
    /\ colorIndex = 0
    /\ maxLane = 0
    /\ commits = <<>>
    /\ lane = 0
    /\ isFirstInLane = FALSE
    /\ color = 0
    /\ graphLines = <<>>
    /\ i = 0
    /\ pc = "row"
    /\ written = {}
    /\ maxOccupied = 0
    /\ fetched = <<>>
    /\ search = <<>>
    /\ filteredCommits = <<>>
    /\ results = <<>>
    /\ InitServer
    /\ InitClient

\* for (let raw of rawCommits) { find or assign the lane, occupy it }
BeginRow(sha, parents) ==
    /\ pc = "row"
    /\ rawCommits' = Append(rawCommits, [sha |-> sha, parents |-> parents])
    /\ LET known == sha \in DOMAIN shaToLane
           found == findIndex(lanes)
           l == IF known THEN shaToLane[sha]
                ELSE IF found = -1 THEN Len(lanes) ELSE found
           grown == IF ~known /\ found = -1 THEN Append(lanes, NULL) ELSE lanes
       IN  /\ lane' = l
           /\ isFirstInLane' = IF known THEN sha \notin shaAssignedByParent ELSE TRUE
           /\ shaToLane' = IF known THEN shaToLane ELSE shaToLane @@ (sha :> l)
           /\ shaToColor' = IF known THEN shaToColor
                            ELSE shaToColor @@ (sha :> nextColor)
           /\ colorIndex' = IF known THEN colorIndex ELSE colorIndex + 1
           /\ lanes' = [grown EXCEPT ![l + 1] = sha]
           /\ maxLane' = Max(maxLane, l)
           /\ color' = IF sha \in DOMAIN shaToColor' THEN shaToColor'[sha] ELSE 0
           /\ written' = written \cup {l}
    /\ maxOccupied' = Max(maxOccupied, Occupied(lanes'))
    /\ graphLines' = <<>>
    /\ pc' = "passthrough"
    /\ UNCHANGED <<shaAssignedByParent, commits, i>>
    /\ UNCHANGED <<callerVars, processVars>>

\* the pass-through segment drawn in the colour of the row's commit
RECURSIVE continuingOwnColor(_, _)
continuingOwnColor(k, acc) ==
    IF k >= Len(lanes) THEN acc
    ELSE continuingOwnColor(k + 1,
            IF lanes[k + 1] # NULL /\ k # lane
            THEN Append(acc, [from |-> k, to |-> k, color |-> color])
            ELSE acc)

\* the loop over the lanes with the bound lanes.length - 1: the last lane is skipped
RECURSIVE continuingSkipLast(_, _)
continuingSkipLast(k, acc) ==
    IF k >= Len(lanes) - 1 THEN acc
    ELSE continuingSkipLast(k + 1,
            IF lanes[k + 1] # NULL /\ k # lane
            THEN Append(acc, [from |-> k, to |-> k, color |-> colorOf(lanes[k + 1])])
            ELSE acc)

\* for (let i = 0; i < lanes.length; i++) if (lanes[i] !== null && i !== lane) ...
RECURSIVE continuing(_, _)
continuing(k, acc) ==
    IF k >= Len(lanes) THEN acc
    ELSE continuing(k + 1,
            IF lanes[k + 1] # NULL /\ k # lane
            THEN Append(acc, [from |-> k, to |-> k, color |-> colorOf(lanes[k + 1])])
            ELSE acc)

PassThrough ==
    /\ pc = "passthrough"
    /\ graphLines' = continuing(0, graphLines)
    /\ pc' = "parents"
    /\ UNCHANGED <<rawCommits, lanes, shaToLane, shaToColor, shaAssignedByParent,
                   colorIndex, maxLane, commits, lane, isFirstInLane, color, i,
                   written, maxOccupied>>
    /\ UNCHANGED <<callerVars, processVars>>

\* the root branch without lanes[lane] = null
RootCommitKeepsLane ==
    /\ pc = "parents"
    /\ Len(raw.parents) = 0
    /\ pc' = "push"
    /\ UNCHANGED <<rawCommits, lanes, shaToLane, shaToColor, shaAssignedByParent,
                   colorIndex, maxLane, commits, lane, isFirstInLane, color,
                   graphLines, i, written, maxOccupied>>
    /\ UNCHANGED <<callerVars, processVars>>

\* the root branch drawing a line below the root
RootCommitDrawsLine ==
    /\ pc = "parents"
    /\ Len(raw.parents) = 0
    /\ lanes' = [lanes EXCEPT ![lane + 1] = NULL]
    /\ graphLines' = Append(graphLines, [from |-> lane, to |-> lane, color |-> color])
    /\ pc' = "push"
    /\ UNCHANGED <<rawCommits, shaToLane, shaToColor, shaAssignedByParent,
                   colorIndex, maxLane, commits, lane, isFirstInLane, color,
                   i, written, maxOccupied>>
    /\ UNCHANGED <<callerVars, processVars>>

\* if (parents.length === 0) { lanes[lane] = null }
RootCommit ==
    /\ pc = "parents"
    /\ Len(raw.parents) = 0
    /\ lanes' = [lanes EXCEPT ![lane + 1] = NULL]
    /\ pc' = "push"
    /\ UNCHANGED <<rawCommits, shaToLane, shaToColor, shaAssignedByParent,
                   colorIndex, maxLane, commits, lane, isFirstInLane, color,
                   graphLines, i, written, maxOccupied>>
    /\ UNCHANGED <<callerVars, processVars>>

\* the inheriting branch without shaToColor.set(parent, color)
SingleParentNoColor ==
    /\ pc = "parents"
    /\ Len(raw.parents) = 1
    /\ LET parent == raw.parents[1] IN
       IF parent \in DOMAIN shaToLane
       THEN /\ graphLines' = Append(graphLines,
                [from |-> lane, to |-> shaToLane[parent], color |-> color])
            /\ lanes' = [lanes EXCEPT ![lane + 1] = NULL]
            /\ UNCHANGED <<shaToLane, shaToColor, shaAssignedByParent, written>>
       ELSE /\ shaToLane' = shaToLane @@ (parent :> lane)
            /\ shaAssignedByParent' = shaAssignedByParent \cup {parent}
            /\ lanes' = [lanes EXCEPT ![lane + 1] = parent]
            /\ written' = written \cup {lane}
            /\ graphLines' = Append(graphLines,
                [from |-> lane, to |-> lane, color |-> color])
            /\ UNCHANGED shaToColor
    /\ pc' = "push"
    /\ UNCHANGED <<rawCommits, colorIndex, maxLane, commits, lane, isFirstInLane,
                   color, i, maxOccupied>>
    /\ UNCHANGED <<callerVars, processVars>>

\* the single-parent branch without the test of existingParentLane: the
\* parent always takes the commit's lane and colour
SingleParentAlwaysInherits ==
    /\ pc = "parents"
    /\ Len(raw.parents) = 1
    /\ LET parent == raw.parents[1] IN
            /\ shaToLane' = (parent :> lane) @@ shaToLane
            /\ shaToColor' = (parent :> color) @@ shaToColor
            /\ shaAssignedByParent' = shaAssignedByParent \cup {parent}
            /\ lanes' = [lanes EXCEPT ![lane + 1] = parent]
            /\ written' = written \cup {lane}
            /\ graphLines' = Append(graphLines,
                [from |-> lane, to |-> lane, color |-> color])
    /\ pc' = "push"
    /\ UNCHANGED <<rawCommits, colorIndex, maxLane, commits, lane, isFirstInLane,
                   color, i, maxOccupied>>
    /\ UNCHANGED <<callerVars, processVars>>

\* the single-parent branch freeing the lane when the parent inherits it
SingleParentFreesLane ==
    /\ pc = "parents"
    /\ Len(raw.parents) = 1
    /\ LET parent == raw.parents[1] IN
       IF parent \in DOMAIN shaToLane
       THEN /\ graphLines' = Append(graphLines,
                [from |-> lane, to |-> shaToLane[parent], color |-> color])
            /\ lanes' = [lanes EXCEPT ![lane + 1] = NULL]
            /\ UNCHANGED <<shaToLane, shaToColor, shaAssignedByParent, written>>
       ELSE /\ shaToLane' = shaToLane @@ (parent :> lane)
            /\ shaToColor' = shaToColor @@ (parent :> color)
            /\ shaAssignedByParent' = shaAssignedByParent \cup {parent}
            /\ lanes' = [lanes EXCEPT ![lane + 1] = NULL]
            /\ written' = written \cup {lane}
            /\ graphLines' = Append(graphLines,
                [from |-> lane, to |-> lane, color |-> color])
    /\ pc' = "push"
    /\ UNCHANGED <<rawCommits, colorIndex, maxLane, commits, lane, isFirstInLane,
                   color, i, maxOccupied>>
    /\ UNCHANGED <<callerVars, processVars>>

\* the single-parent branch without shaAssignedByParent.add(parent)
SingleParentNoMark ==
    /\ pc = "parents"
    /\ Len(raw.parents) = 1
    /\ LET parent == raw.parents[1] IN
       IF parent \in DOMAIN shaToLane
       THEN /\ graphLines' = Append(graphLines,
                [from |-> lane, to |-> shaToLane[parent], color |-> color])
            /\ lanes' = [lanes EXCEPT ![lane + 1] = NULL]
            /\ UNCHANGED <<shaToLane, shaToColor, written>>
       ELSE /\ shaToLane' = shaToLane @@ (parent :> lane)
            /\ shaToColor' = shaToColor @@ (parent :> color)
            /\ lanes' = [lanes EXCEPT ![lane + 1] = parent]
            /\ written' = written \cup {lane}
            /\ graphLines' = Append(graphLines,
                [from |-> lane, to |-> lane, color |-> color])
    /\ pc' = "push"
    /\ UNCHANGED <<rawCommits, shaAssignedByParent, colorIndex, maxLane, commits,
                   lane, isFirstInLane, color, i, maxOccupied>>
    /\ UNCHANGED <<callerVars, processVars>>

\* the single-parent branch giving the inheriting parent a new colour
SingleParentNewColor ==
    /\ pc = "parents"
    /\ Len(raw.parents) = 1
    /\ LET parent == raw.parents[1] IN
       IF parent \in DOMAIN shaToLane
       THEN /\ graphLines' = Append(graphLines,
                [from |-> lane, to |-> shaToLane[parent], color |-> color])
            /\ lanes' = [lanes EXCEPT ![lane + 1] = NULL]
            /\ UNCHANGED <<shaToLane, shaToColor, shaAssignedByParent, written,
                           colorIndex>>
       ELSE /\ shaToLane' = shaToLane @@ (parent :> lane)
            /\ shaToColor' = shaToColor @@ (parent :> nextColor)
            /\ colorIndex' = colorIndex + 1
            /\ shaAssignedByParent' = shaAssignedByParent \cup {parent}
            /\ lanes' = [lanes EXCEPT ![lane + 1] = parent]
            /\ written' = written \cup {lane}
            /\ graphLines' = Append(graphLines,
                [from |-> lane, to |-> lane, color |-> color])
    /\ pc' = "push"
    /\ UNCHANGED <<rawCommits, maxLane, commits, lane, isFirstInLane,
                   color, i, maxOccupied>>
    /\ UNCHANGED <<callerVars, processVars>>

\* else if (parents.length === 1) { ... }
SingleParent ==
    /\ pc = "parents"
    /\ Len(raw.parents) = 1
    /\ LET parent == raw.parents[1] IN
       IF parent \in DOMAIN shaToLane
       THEN /\ graphLines' = Append(graphLines,
                [from |-> lane, to |-> shaToLane[parent], color |-> color])
            /\ lanes' = [lanes EXCEPT ![lane + 1] = NULL]
            /\ UNCHANGED <<shaToLane, shaToColor, shaAssignedByParent, written>>
       ELSE /\ shaToLane' = shaToLane @@ (parent :> lane)
            /\ shaToColor' = shaToColor @@ (parent :> color)
            /\ shaAssignedByParent' = shaAssignedByParent \cup {parent}
            /\ lanes' = [lanes EXCEPT ![lane + 1] = parent]
            /\ written' = written \cup {lane}
            /\ graphLines' = Append(graphLines,
                [from |-> lane, to |-> lane, color |-> color])
    /\ pc' = "push"
    /\ UNCHANGED <<rawCommits, colorIndex, maxLane, commits, lane, isFirstInLane,
                   color, i, maxOccupied>>
    /\ UNCHANGED <<callerVars, processVars>>

\* the first-parent branch with lanes[lane] = null in both cases: the lane
\* the first parent inherits is marked free
MergeFirstParentInheritFrees ==
    /\ pc = "parents"
    /\ Len(raw.parents) >= 2
    /\ LET firstParent == raw.parents[1] IN
       IF firstParent \in DOMAIN shaToLane
       THEN /\ graphLines' = Append(graphLines,
                [from |-> lane, to |-> shaToLane[firstParent], color |-> color])
            /\ lanes' = [lanes EXCEPT ![lane + 1] = NULL]
            /\ UNCHANGED <<shaToLane, shaToColor, shaAssignedByParent, written>>
       ELSE /\ shaToLane' = shaToLane @@ (firstParent :> lane)
            /\ shaToColor' = shaToColor @@ (firstParent :> color)
            /\ shaAssignedByParent' = shaAssignedByParent \cup {firstParent}
            /\ lanes' = [lanes EXCEPT ![lane + 1] = NULL]
            /\ written' = written \cup {lane}
            /\ graphLines' = Append(graphLines,
                [from |-> lane, to |-> lane, color |-> color])
    /\ i' = 1
    /\ pc' = "others"
    /\ UNCHANGED <<rawCommits, colorIndex, maxLane, commits, lane, isFirstInLane,
                   color, maxOccupied>>
    /\ UNCHANGED <<callerVars, processVars>>

\* the first-parent branch without lanes[lane] = null: a merge commit that
\* converges onto its first parent's lane keeps its own lane
MergeFirstParentKeepsLane ==
    /\ pc = "parents"
    /\ Len(raw.parents) >= 2
    /\ LET firstParent == raw.parents[1] IN
       IF firstParent \in DOMAIN shaToLane
       THEN /\ graphLines' = Append(graphLines,
                [from |-> lane, to |-> shaToLane[firstParent], color |-> color])
            /\ UNCHANGED <<lanes, shaToLane, shaToColor, shaAssignedByParent,
                           written>>
       ELSE /\ shaToLane' = shaToLane @@ (firstParent :> lane)
            /\ shaToColor' = shaToColor @@ (firstParent :> color)
            /\ shaAssignedByParent' = shaAssignedByParent \cup {firstParent}
            /\ lanes' = [lanes EXCEPT ![lane + 1] = firstParent]
            /\ written' = written \cup {lane}
            /\ graphLines' = Append(graphLines,
                [from |-> lane, to |-> lane, color |-> color])
    /\ i' = 1
    /\ pc' = "others"
    /\ UNCHANGED <<rawCommits, colorIndex, maxLane, commits, lane, isFirstInLane,
                   color, maxOccupied>>
    /\ UNCHANGED <<callerVars, processVars>>

\* the first-parent branch without the test of existingFirstLane: the first
\* parent always takes the merge commit's lane and colour
MergeFirstParentOverwrites ==
    /\ pc = "parents"
    /\ Len(raw.parents) >= 2
    /\ LET firstParent == raw.parents[1] IN
            /\ shaToLane' = (firstParent :> lane) @@ shaToLane
            /\ shaToColor' = (firstParent :> color) @@ shaToColor
            /\ shaAssignedByParent' = shaAssignedByParent \cup {firstParent}
            /\ lanes' = [lanes EXCEPT ![lane + 1] = firstParent]
            /\ written' = written \cup {lane}
            /\ graphLines' = Append(graphLines,
                [from |-> lane, to |-> lane, color |-> color])
    /\ i' = 1
    /\ pc' = "others"
    /\ UNCHANGED <<rawCommits, colorIndex, maxLane, commits, lane, isFirstInLane,
                   color, maxOccupied>>
    /\ UNCHANGED <<callerVars, processVars>>

\* else { merge commit: the first parent }
MergeFirstParent ==
    /\ pc = "parents"
    /\ Len(raw.parents) >= 2
    /\ LET firstParent == raw.parents[1] IN
       IF firstParent \in DOMAIN shaToLane
       THEN /\ graphLines' = Append(graphLines,
                [from |-> lane, to |-> shaToLane[firstParent], color |-> color])
            /\ lanes' = [lanes EXCEPT ![lane + 1] = NULL]
            /\ UNCHANGED <<shaToLane, shaToColor, shaAssignedByParent, written>>
       ELSE /\ shaToLane' = shaToLane @@ (firstParent :> lane)
            /\ shaToColor' = shaToColor @@ (firstParent :> color)
            /\ shaAssignedByParent' = shaAssignedByParent \cup {firstParent}
            /\ lanes' = [lanes EXCEPT ![lane + 1] = firstParent]
            /\ written' = written \cup {lane}
            /\ graphLines' = Append(graphLines,
                [from |-> lane, to |-> lane, color |-> color])
    /\ i' = 1
    /\ pc' = "others"
    /\ UNCHANGED <<rawCommits, colorIndex, maxLane, commits, lane, isFirstInLane,
                   color, maxOccupied>>
    /\ UNCHANGED <<callerVars, processVars>>

\* one iteration of the loop over the other parents without the test of
\* existingLane: every non-first parent is given a new lane and colour
OtherParentAlwaysNew ==
    /\ pc = "others"
    /\ i < Len(raw.parents)
    /\ LET parent == raw.parents[i + 1]
           found == findIndex(lanes)
           newLane == IF found = -1 THEN Len(lanes) ELSE found
           grown == IF found = -1 THEN Append(lanes, NULL) ELSE lanes
           newColor == nextColor
       IN  /\ colorIndex' = colorIndex + 1
           /\ shaToLane' = (parent :> newLane) @@ shaToLane
           /\ shaToColor' = (parent :> newColor) @@ shaToColor
           /\ shaAssignedByParent' = shaAssignedByParent \cup {parent}
           /\ lanes' = [grown EXCEPT ![newLane + 1] = parent]
           /\ written' = written \cup {newLane}
           /\ maxOccupied' = Max(maxOccupied, Occupied(lanes'))
           /\ maxLane' = Max(maxLane, newLane)
           /\ graphLines' = Append(graphLines,
               [from |-> lane, to |-> newLane, color |-> newColor])
    /\ i' = i + 1
    /\ UNCHANGED <<rawCommits, commits, lane, isFirstInLane, color, pc>>
    /\ UNCHANGED <<callerVars, processVars>>

\* one iteration of the loop over the other parents without
\* maxLane = Math.max(maxLane, newLane)
OtherParentNoMax ==
    /\ pc = "others"
    /\ i < Len(raw.parents)
    /\ LET parent == raw.parents[i + 1] IN
       IF parent \in DOMAIN shaToLane
       THEN /\ graphLines' = Append(graphLines,
                [from |-> lane, to |-> shaToLane[parent], color |-> colorOf(parent)])
            /\ UNCHANGED <<lanes, shaToLane, shaToColor, shaAssignedByParent,
                           colorIndex, written, maxOccupied>>
       ELSE LET found == findIndex(lanes)
                newLane == IF found = -1 THEN Len(lanes) ELSE found
                grown == IF found = -1 THEN Append(lanes, NULL) ELSE lanes
                newColor == nextColor
            IN  /\ colorIndex' = colorIndex + 1
                /\ shaToLane' = shaToLane @@ (parent :> newLane)
                /\ shaToColor' = shaToColor @@ (parent :> newColor)
                /\ shaAssignedByParent' = shaAssignedByParent \cup {parent}
                /\ lanes' = [grown EXCEPT ![newLane + 1] = parent]
                /\ written' = written \cup {newLane}
                /\ maxOccupied' = Max(maxOccupied, Occupied(lanes'))
                /\ graphLines' = Append(graphLines,
                    [from |-> lane, to |-> newLane, color |-> newColor])
    /\ i' = i + 1
    /\ UNCHANGED <<rawCommits, maxLane, commits, lane, isFirstInLane, color, pc>>
    /\ UNCHANGED <<callerVars, processVars>>

\* one iteration of the loop over the other parents drawing the merge line
\* to a parent that has a lane in the commit's colour, not in the parent's
OtherParentOwnColor ==
    /\ pc = "others"
    /\ i < Len(raw.parents)
    /\ LET parent == raw.parents[i + 1] IN
       IF parent \in DOMAIN shaToLane
       THEN /\ graphLines' = Append(graphLines,
                [from |-> lane, to |-> shaToLane[parent], color |-> color])
            /\ UNCHANGED <<lanes, shaToLane, shaToColor, shaAssignedByParent,
                           colorIndex, maxLane, written, maxOccupied>>
       ELSE LET found == findIndex(lanes)
                newLane == IF found = -1 THEN Len(lanes) ELSE found
                grown == IF found = -1 THEN Append(lanes, NULL) ELSE lanes
                newColor == nextColor
            IN  /\ colorIndex' = colorIndex + 1
                /\ shaToLane' = shaToLane @@ (parent :> newLane)
                /\ shaToColor' = shaToColor @@ (parent :> newColor)
                /\ shaAssignedByParent' = shaAssignedByParent \cup {parent}
                /\ lanes' = [grown EXCEPT ![newLane + 1] = parent]
                /\ written' = written \cup {newLane}
                /\ maxOccupied' = Max(maxOccupied, Occupied(lanes'))
                /\ maxLane' = Max(maxLane, newLane)
                /\ graphLines' = Append(graphLines,
                    [from |-> lane, to |-> newLane, color |-> newColor])
    /\ i' = i + 1
    /\ UNCHANGED <<rawCommits, commits, lane, isFirstInLane, color, pc>>
    /\ UNCHANGED <<callerVars, processVars>>

\* for (let i = 1; i < parents.length; i++) { ... }: one iteration
OtherParent ==
    /\ pc = "others"
    /\ i < Len(raw.parents)
    /\ LET parent == raw.parents[i + 1] IN
       IF parent \in DOMAIN shaToLane
       THEN /\ graphLines' = Append(graphLines,
                [from |-> lane, to |-> shaToLane[parent], color |-> colorOf(parent)])
            /\ UNCHANGED <<lanes, shaToLane, shaToColor, shaAssignedByParent,
                           colorIndex, maxLane, written, maxOccupied>>
       ELSE LET found == findIndex(lanes)
                newLane == IF found = -1 THEN Len(lanes) ELSE found
                grown == IF found = -1 THEN Append(lanes, NULL) ELSE lanes
                newColor == nextColor
            IN  /\ colorIndex' = colorIndex + 1
                /\ shaToLane' = shaToLane @@ (parent :> newLane)
                /\ shaToColor' = shaToColor @@ (parent :> newColor)
                /\ shaAssignedByParent' = shaAssignedByParent \cup {parent}
                /\ lanes' = [grown EXCEPT ![newLane + 1] = parent]
                /\ written' = written \cup {newLane}
                /\ maxOccupied' = Max(maxOccupied, Occupied(lanes'))
                /\ maxLane' = Max(maxLane, newLane)
                /\ graphLines' = Append(graphLines,
                    [from |-> lane, to |-> newLane, color |-> newColor])
    /\ i' = i + 1
    /\ UNCHANGED <<rawCommits, commits, lane, isFirstInLane, color, pc>>
    /\ UNCHANGED <<callerVars, processVars>>

\* the loop over the other parents without i++: it never ends
OtherParentsNeverDone ==
    /\ pc = "others"
    /\ i >= Len(raw.parents) + 1
    /\ pc' = "push"
    /\ UNCHANGED <<rawCommits, lanes, shaToLane, shaToColor, shaAssignedByParent,
                   colorIndex, maxLane, commits, lane, isFirstInLane, color,
                   graphLines, i, written, maxOccupied>>
    /\ UNCHANGED <<callerVars, processVars>>

\* the loop over the other parents ends
OtherParentsDone ==
    /\ pc = "others"
    /\ i >= Len(raw.parents)
    /\ pc' = "push"
    /\ UNCHANGED <<rawCommits, lanes, shaToLane, shaToColor, shaAssignedByParent,
                   colorIndex, maxLane, commits, lane, isFirstInLane, color,
                   graphLines, i, written, maxOccupied>>
    /\ UNCHANGED <<callerVars, processVars>>

\* commits.unshift instead of commits.push: the node is put before the others
PushCommitFirst ==
    /\ pc = "push"
    /\ commits' = <<[sha |-> raw.sha, parents |-> raw.parents,
                     graph |-> [lane |-> lane, color |-> color,
                                isFirstInLane |-> isFirstInLane,
                                lines |-> graphLines]]>> \o commits
    /\ pc' = "row"
    /\ UNCHANGED <<rawCommits, lanes, shaToLane, shaToColor, shaAssignedByParent,
                   colorIndex, maxLane, lane, isFirstInLane, color, graphLines, i,
                   written, maxOccupied>>
    /\ UNCHANGED <<callerVars, processVars>>

\* commits.push({...raw, graph: {lane, color, isFirstInLane, lines: graphLines}})
PushCommit ==
    /\ pc = "push"
    /\ commits' = Append(commits,
            [sha |-> raw.sha, parents |-> raw.parents,
             graph |-> [lane |-> lane, color |-> color,
                        isFirstInLane |-> isFirstInLane, lines |-> graphLines]])
    /\ pc' = "row"
    /\ UNCHANGED <<rawCommits, lanes, shaToLane, shaToColor, shaAssignedByParent,
                   colorIndex, maxLane, lane, isFirstInLane, color, graphLines, i,
                   written, maxOccupied>>
    /\ UNCHANGED <<callerVars, processVars>>

\* return { commits, maxLane }: the input has no more rows
Return ==
    /\ pc = "row"
    /\ pc' = "done"
    /\ UNCHANGED <<rawCommits, lanes, shaToLane, shaToColor, shaAssignedByParent,
                   colorIndex, maxLane, commits, lane, isFirstInLane, color,
                   graphLines, i, written, maxOccupied>>
    /\ UNCHANGED <<callerVars, processVars>>

\* computeGraph runs on a list git log emitted: the loop takes its next row
LogRow ==
    \E sha \in Ids, parents \in ParentLists :
        /\ Len(rawCommits) < MaxRows
        /\ RawCommit(rawCommits, sha, parents)
        /\ BeginRow(sha, parents)

Next ==
    \/ LogRow
    \/ PassThrough
    \/ RootCommit
    \/ SingleParent
    \/ MergeFirstParent
    \/ OtherParent
    \/ OtherParentsDone
    \/ PushCommit
    \/ Return

Spec == Init /\ [][Next]_vars

\* The pass is synchronous code: once called it runs its next statement
\* until it returns.
FairSpec == Spec /\ WF_vars(Next)


(***************************************************************************)
(* computeGraph called on a list its caller holds, and called again        *)
(***************************************************************************)

\* for (let raw of rawCommits): the next row of the list that was passed
GivenRow ==
    /\ Len(rawCommits) < Len(filteredCommits)
    /\ BeginRow(filteredCommits[Len(rawCommits) + 1].sha,
                filteredCommits[Len(rawCommits) + 1].parents)

\* the loop ends after the last row of the list that was passed
GivenReturn ==
    /\ Len(rawCommits) = Len(filteredCommits)
    /\ Return

\* a call that creates every table anew but goes on with the colour counter
\* of the call before (colorIndex kept outside the function, like graphColors)
FreshTablesKeepColorIndex ==
    /\ rawCommits' = <<>>
    /\ lanes' = <<>>
    /\ shaToLane' = <<>>
    /\ shaToColor' = <<>>
    /\ shaAssignedByParent' = {}
    /\ maxLane' = 0
    /\ commits' = <<>>
    /\ lane' = 0
    /\ isFirstInLane' = FALSE
    /\ color' = 0
    /\ graphLines' = <<>>
    /\ i' = 0
    /\ written' = {}
    /\ maxOccupied' = 0
    /\ pc' = "row"
    /\ UNCHANGED colorIndex
    /\ UNCHANGED processVars

\* let lanes = [], shaToLane = new Map(), ..., colorIndex = 0, maxLane = 0,
\* commits = []: what every call of computeGraph starts from
FreshTables ==
    /\ rawCommits' = <<>>
    /\ lanes' = <<>>
    /\ shaToLane' = <<>>
    /\ shaToColor' = <<>>
    /\ shaAssignedByParent' = {}
    /\ colorIndex' = 0
    /\ maxLane' = 0
    /\ commits' = <<>>
    /\ lane' = 0
    /\ isFirstInLane' = FALSE
    /\ color' = 0
    /\ graphLines' = <<>>
    /\ i' = 0
    /\ written' = {}
    /\ maxOccupied' = 0
    /\ pc' = "row"
    /\ UNCHANGED processVars

\* The first call with its input and what it returned
FirstCall == [input |-> rawCommits, commits |-> commits, maxLane |-> maxLane]

\* after the first call, or after a call on another list, computeGraph is
\* called on the list of the first call again
CallAgain ==
    /\ pc = "done"
    /\ IF results = <<>> THEN TRUE ELSE filteredCommits # results[1].input
    /\ results' = IF results = <<>> THEN <<FirstCall>> ELSE results
    /\ filteredCommits' = results'[1].input
    /\ FreshTables
    /\ UNCHANGED <<fetched, search>>

\* after the first call, computeGraph is called on another list: the first
\* n rows of the list of the first call (what a lower limit makes git log emit)
CallOther ==
    /\ pc = "done"
    /\ results = <<>>
    /\ \E n \in 1..(Len(rawCommits) - 1) :
          filteredCommits' = SubSeq(rawCommits, 1, n)
    /\ results' = <<FirstCall>>
    /\ FreshTables
    /\ UNCHANGED <<fetched, search>>

NextTwoCalls ==
    \/ (results = <<>> /\ LogRow)
    \/ (results = <<>> /\ Return)
    \/ (results # <<>> /\ GivenRow)
    \/ (results # <<>> /\ GivenReturn)
    \/ PassThrough
    \/ RootCommit
    \/ SingleParent
    \/ MergeFirstParent
    \/ OtherParent
    \/ OtherParentsDone
    \/ PushCommit
    \/ CallAgain
    \/ CallOther

SpecTwoCalls == Init /\ [][NextTwoCalls]_vars

(***************************************************************************)
(* computeGraph on a history with more lineages than the palette has       *)
(* colours.  Commits are numbered in the order the log mentions them; a    *)
(* row is a commit not mentioned so far or the oldest parent still to come, *)
(* its parents are commits not mentioned so far or parents still to come.  *)
(***************************************************************************)

PaletteLogRow ==
    /\ Len(rawCommits) < PaletteRows
    /\ LET used == Mentioned(rawCommits)
           pending == used \ Shas(rawCommits)
           fresh == Cardinality(used) + 1
           oldest == {p \in pending : \A q \in pending : p <= q}
       IN  \E sha \in {fresh} \cup oldest :
             LET g == IF sha = fresh THEN fresh + 1 ELSE fresh
                 later == pending \ {sha}
             IN  \E parents \in {[m \in 1..n |-> g + m - 1] : n \in 0..PaletteParents}
                                  \cup {<<p>> : p \in later}
                                  \cup {<<g, p>> : p \in later}
                                  \cup {<<p, g>> : p \in later} :
                     BeginRow(sha, parents)

NextPalette ==
    \/ PaletteLogRow
    \/ PassThrough
    \/ RootCommit
    \/ SingleParent
    \/ MergeFirstParent
    \/ OtherParent
    \/ OtherParentsDone
    \/ PushCommit
    \/ Return

SpecPalette == Init /\ [][NextPalette]_vars

(***************************************************************************)
(* getCommits: git log, the search filter, then computeGraph.  A string is *)
(* a sequence of characters; of a log line the model keeps the fields the  *)
(* filter and the layout read: sha, subject, author, parents.              *)
(***************************************************************************)

\* The subject and author of a log line, and the search strings, are drawn
\* from these texts
LogTexts == {[subject |-> <<"A", "b">>, author |-> <<"c">>],
             [subject |-> <<"c">>, author |-> <<"B", "1">>]}

Queries == {<<>>, <<"a", "B">>, <<"1">>}

\* %H of commit n: a hexadecimal string, one digit in the model
hexDigits == <<"a", "1", "2", "3", "4", "5", "6", "7", "8", "9", "0",
               "b", "c", "d", "e", "f">>

shaString(n) == <<hexDigits[n]>>

\* String.prototype.toLowerCase
lowerChar(c) == CASE c = "A" -> "a" [] c = "B" -> "b" [] OTHER -> c

toLowerCase(str) == [k \in DOMAIN str |-> lowerChar(str[k])]

\* String.prototype.includes
includes(str, q) ==
    \E k \in 0..(Len(str) - Len(q)) : SubSeq(str, k + 1, k + Len(q)) = q

\* the filter without toLowerCase on the fields: only the query is lowered
matchesCaseSensitive(c, query) ==
    \/ includes(c.subject, query)
    \/ includes(c.author, query)
    \/ includes(shaString(c.sha), query)

\* c => c.subject.toLowerCase().includes(query) || c.author... || c.sha...
matches(c, query) ==
    \/ includes(toLowerCase(c.subject), query)
    \/ includes(toLowerCase(c.author), query)
    \/ includes(toLowerCase(shaString(c.sha)), query)

\* rawCommits.filter(c => ...)
RECURSIVE filter(_, _)
filter(rows, query) ==
    IF rows = <<>> THEN <<>>
    ELSE IF matches(Head(rows), query)
         THEN <<Head(rows)>> \o filter(Tail(rows), query)
         ELSE filter(Tail(rows), query)

\* getCommits(ref, search) is called: nothing is fetched yet
InitGetCommits ==
    /\ rawCommits = <<>>
    /\ lanes = <<>>
    /\ shaToLane = <<>>
    /\ shaToColor = <<>>
    /\ shaAssignedByParent = {}
    /\ colorIndex = 0
    /\ maxLane = 0
    /\ commits = <<>>
    /\ lane = 0
    /\ isFirstInLane = FALSE
    /\ color = 0
    /\ graphLines = <<>>
    /\ i = 0
    /\ pc = "git"
    /\ written = {}
    /\ maxOccupied = 0
    /\ fetched = <<>>
    /\ search \in Queries
    /\ filteredCommits = <<>>
    /\ results = <<>>
    /\ InitServer
    /\ InitClient

\* lines.map(line => ...): one more line of the output of git log
LogLine(sha, parents, subject, author) ==
    /\ pc = "git"
    /\ Len(fetched) < MaxFetched
    /\ RawCommit(fetched, sha, parents)
    /\ fetched' = Append(fetched, [sha |-> sha, parents |-> parents,
                                   subject |-> subject, author |-> author])
    /\ UNCHANGED <<rawCommits, lanes, shaToLane, shaToColor, shaAssignedByParent,
                   colorIndex, maxLane, commits, lane, isFirstInLane, color,
                   graphLines, i, pc, written, maxOccupied,
                   search, filteredCommits, results>>
    /\ UNCHANGED processVars

\* if (search) { filteredCommits = rawCommits.filter(...) }, then
\* computeGraph(filteredCommits) is called
FilterBySearch ==
    /\ pc = "git"
    /\ filteredCommits' = IF search # <<>>
                          THEN filter(fetched, toLowerCase(search))
                          ELSE fetched
    /\ pc' = "row"
    /\ UNCHANGED <<rawCommits, lanes, shaToLane, shaToColor, shaAssignedByParent,
                   colorIndex, maxLane, commits, lane, isFirstInLane, color,
                   graphLines, i, written, maxOccupied,
                   fetched, search, results>>
    /\ UNCHANGED processVars

NextGetCommits ==
    \/ \E sha \in Ids, parents \in ParentLists, text \in LogTexts :
          LogLine(sha, parents, text.subject, text.author)
    \/ FilterBySearch
    \/ GivenRow
    \/ PassThrough
    \/ RootCommit
    \/ SingleParent
    \/ MergeFirstParent
    \/ OtherParent
    \/ OtherParentsDone
    \/ PushCommit
    \/ GivenReturn

SpecGetCommits == InitGetCommits /\ [][NextGetCommits]_vars

(***************************************************************************)
(* Server start-up: tryListen and the 'error' handler of the server.  What *)
(* the operating system answers to a bind is chosen when the bind is made; *)
(* no port is bound twice, so this covers every set of ports in use.       *)
(***************************************************************************)

\* tryListen(port): currentPort = port; server.listen(port, ...)
tryListen(port) ==
    /\ currentPort' = port
    /\ tried' = Append(tried, port)
    /\ serverState' = "binding"

\* tryListen(startPort), the last statement of the start-up
Start ==
    /\ serverState = "created"
    /\ tryListen(startPort)
    /\ UNCHANGED <<exitCode, errCode, inUse>>
    /\ UNCHANGED <<rawCommits, lanes, shaToLane, shaToColor, shaAssignedByParent,
                   colorIndex, maxLane, commits, lane, isFirstInLane, color,
                   graphLines, i, pc, written, maxOccupied>>
    /\ UNCHANGED <<callerVars, clientVars>>

\* the port is free: the server listens on it
Listening ==
    /\ serverState = "binding"
    /\ serverState' = "listening"
    /\ UNCHANGED <<currentPort, exitCode, errCode, tried, inUse>>
    /\ UNCHANGED <<rawCommits, lanes, shaToLane, shaToColor, shaAssignedByParent,
                   colorIndex, maxLane, commits, lane, isFirstInLane, color,
                   graphLines, i, pc, written, maxOccupied>>
    /\ UNCHANGED <<callerVars, clientVars>>

\* the handler with nextPort >= maxPort: the last port is never tried
ErrorAddrInUseStopsEarly ==
    /\ serverState = "binding"
    /\ errCode' = "EADDRINUSE"
    /\ inUse' = inUse \cup {currentPort}
    /\ LET nextPort == currentPort + 1 IN
       IF nextPort >= maxPort
       THEN /\ serverState' = "exited"
            /\ exitCode' = 1
            /\ UNCHANGED <<currentPort, tried>>
       ELSE /\ tryListen(nextPort)
            /\ UNCHANGED exitCode
    /\ UNCHANGED <<rawCommits, lanes, shaToLane, shaToColor, shaAssignedByParent,
                   colorIndex, maxLane, commits, lane, isFirstInLane, color,
                   graphLines, i, pc, written, maxOccupied>>
    /\ UNCHANGED <<callerVars, clientVars>>

\* server.on("error", err => ...) with err.code === "EADDRINUSE"
ErrorAddrInUse ==
    /\ serverState = "binding"
    /\ errCode' = "EADDRINUSE"
    /\ inUse' = inUse \cup {currentPort}
    /\ LET nextPort == currentPort + 1 IN
       IF nextPort > maxPort
       THEN /\ serverState' = "exited"
            /\ exitCode' = 1
            /\ UNCHANGED <<currentPort, tried>>
       ELSE /\ tryListen(nextPort)
            /\ UNCHANGED exitCode
    /\ UNCHANGED <<rawCommits, lanes, shaToLane, shaToColor, shaAssignedByParent,
                   colorIndex, maxLane, commits, lane, isFirstInLane, color,
                   graphLines, i, pc, written, maxOccupied>>
    /\ UNCHANGED <<callerVars, clientVars>>

\* server.on("error", err => ...) with another err.code
ErrorOther ==
    /\ serverState \in {"binding", "listening"}
    /\ errCode' = "other"
    /\ serverState' = "exited"
    /\ exitCode' = 1
    /\ UNCHANGED <<currentPort, tried, inUse>>
    /\ UNCHANGED <<rawCommits, lanes, shaToLane, shaToColor, shaAssignedByParent,
                   colorIndex, maxLane, commits, lane, isFirstInLane, color,
                   graphLines, i, pc, written, maxOccupied>>
    /\ UNCHANGED <<callerVars, clientVars>>

NextListen ==
    \/ Start
    \/ Listening
    \/ ErrorAddrInUse
    \/ ErrorOther

SpecListen == Init /\ [][NextListen]_vars

(***************************************************************************)
(* Client: setFilter and setSearch.  Each call runs to its await, leaves   *)
(* a fetch in flight and resumes when the fetch resolves; fetches resolve  *)
(* in any order.                                                           *)
(***************************************************************************)

\* filter === "all" ? "all" : filter === "local" ? state.refs?.currentBranch : filter
refOf(flt) ==
    IF flt = "all" THEN "all"
    ELSE IF flt = "local" THEN state.refs.currentBranch
    ELSE flt

\* A call that has reached await fetchCommits(ref, search)
Call(by, ref, srch) ==
    [id |-> Len(issued) + 1, by |-> by, ref |-> ref, search |-> srch]

\* setFilter(filter) up to its await
setFilter(flt) ==
    /\ Len(issued) < MaxCalls
    /\ state' = [state EXCEPT !.filter = flt, !.loading = TRUE]
    /\ inFlight' = inFlight \cup {Call("setFilter", refOf(flt), state.search)}
    /\ issued' = Append(issued, [ref |-> refOf(flt), search |-> state.search,
                                 overlaps |-> inFlight # {}])
    /\ UNCHANGED <<rawCommits, lanes, shaToLane, shaToColor, shaAssignedByParent,
                   colorIndex, maxLane, commits, lane, isFirstInLane, color,
                   graphLines, i, pc, written, maxOccupied>>
    /\ UNCHANGED <<callerVars, serverVars>>

\* setSearch(search) up to its await
setSearch(srch) ==
    /\ Len(issued) < MaxCalls
    /\ state' = [state EXCEPT !.search = srch, !.loading = TRUE]
    /\ inFlight' = inFlight \cup {Call("setSearch", refOf(state.filter), srch)}
    /\ issued' = Append(issued, [ref |-> refOf(state.filter), search |-> srch,
                                 overlaps |-> inFlight # {}])
    /\ UNCHANGED <<rawCommits, lanes, shaToLane, shaToColor, shaAssignedByParent,
                   colorIndex, maxLane, commits, lane, isFirstInLane, color,
                   graphLines, i, pc, written, maxOccupied>>
    /\ UNCHANGED <<callerVars, serverVars>>

\* the fetch of a call resolves and the call resumes after its await:
\* state.commits = result.commits; state.maxLane = result.maxLane; ...
Resume(call) ==
    /\ state' = [state EXCEPT !.commits = Response(call.ref, call.search).commits,
                              !.maxLane = Response(call.ref, call.search).maxLane,
                              !.loading = FALSE]
    /\ inFlight' = inFlight \ {call}
    /\ UNCHANGED issued
    /\ UNCHANGED <<rawCommits, lanes, shaToLane, shaToColor, shaAssignedByParent,
                   colorIndex, maxLane, commits, lane, isFirstInLane, color,
                   graphLines, i, pc, written, maxOccupied>>
    /\ UNCHANGED <<callerVars, serverVars>>

\* setFilter after its await
setFilterResumes ==
    \E call \in inFlight : call.by = "setFilter" /\ Resume(call)

\* setSearch after its await
setSearchResumes ==
    \E call \in inFlight : call.by = "setSearch" /\ Resume(call)

NextClient ==
    \/ \E flt \in Filters : setFilter(flt)
    \/ \E srch \in Searches : setSearch(srch)
    \/ setFilterResumes
    \/ setSearchResumes

SpecClient == Init /\ [][NextClient]_vars

(***************************************************************************)
(* Properties                                                              *)
(***************************************************************************)

\* No commit id occurs twice in the input
Distinct(rc) == \A a, b \in DOMAIN rc : a # b => rc[a].sha # rc[b].sha

\* The parents the input names that are not commits of the input
Truncated == (Mentioned(rawCommits) \ Shas(rawCommits))

\* The rows that name p as a parent
Refs(p) == {k \in DOMAIN rawCommits : p \in Range(rawCommits[k].parents)}

FirstRef(p) == CHOOSE k \in Refs(p) : \A j \in Refs(p) : k <= j

LastRef(p) == CHOOSE k \in Refs(p) : \A j \in Refs(p) : k >= j

SetMax(S) == CHOOSE m \in S : \A n \in S : m >= n

\* The segments of row k
Lines(k) == commits[k].graph.lines

\* The number of segments of row k equal to seg
Count(k, seg) == Cardinality({n \in DOMAIN Lines(k) : Lines(k)[n] = seg})

\* C1: with distinct commit ids, at every step no identifier is held by two
\* different slots of the lane table.
C1_LaneOccupancy ==
    Distinct(rawCommits) =>
        \A a, b \in DOMAIN lanes : (a # b /\ lanes[a] # NULL) => lanes[a] # lanes[b]

\* C1 witness: in the middle of a row two slots are held, by different identifiers.
C1_Witness ==
    /\ pc = "others"
    /\ Distinct(rawCommits)
    /\ \E a, b \in DOMAIN lanes : a # b /\ lanes[a] # NULL /\ lanes[b] # NULL

C4_MaxLaneIsHighestWritten ==
    (pc = "done" /\ Len(rawCommits) >= 1) =>
        (written # {} /\ maxLane = SetMax(written))

\* C4 witness: the pass has returned and a lane above lane 0 was written.
C4_Witness ==
    pc = "done" /\ Len(rawCommits) >= 1 /\ \E l \in written : l >= 1

\* C5: lane and colour are write-once: an identifier that has a lane and a
\* colour keeps both in every later step; at the end of a row every parent
\* the row names has a lane and a colour; a commit's node carries the lane
\* and the colour the identifier had when its row began.
C5_WriteOnce ==
    [][ /\ \A x \in DOMAIN shaToLane :
              x \in DOMAIN shaToLane' /\ shaToLane'[x] = shaToLane[x]
        /\ \A x \in DOMAIN shaToColor :
              x \in DOMAIN shaToColor' /\ shaToColor'[x] = shaToColor[x]
        /\ (pc = "push" /\ pc' = "row") =>
              /\ \A x \in Range(raw.parents) :
                    x \in DOMAIN shaToLane /\ x \in DOMAIN shaToColor
              /\ commits'[Len(commits')].graph.lane = shaToLane[raw.sha]
              /\ commits'[Len(commits')].graph.color = shaToColor[raw.sha]
      ]_vars

\* C5 witness: a commit that an earlier row named as a parent has been
\* processed, and a second row has named it as well.
C5_Witness ==
    \E k \in DOMAIN commits :
        /\ commits[k].sha \in shaAssignedByParent
        /\ Cardinality({j \in Refs(commits[k].sha) : j < k}) >= 2

\* C6: with distinct commit ids, a node has isFirstInLane = false exactly when
\* an earlier commit of the input names it as a parent.
C6_FirstInLane ==
    Distinct(rawCommits) =>
        \A k \in DOMAIN commits :
            commits[k].graph.isFirstInLane
                = ~(\E j \in Refs(commits[k].sha) : j < k)

\* C6 witness: one node has isFirstInLane = false and another one, in a
\* later row, has isFirstInLane = true.
C6_Witness ==
    /\ Distinct(rawCommits)
    /\ \E j, k \in DOMAIN commits :
          j < k /\ ~commits[j].graph.isFirstInLane /\ commits[k].graph.isFirstInLane

\* C7: right after the row of a commit without parents, the slot of that
\* commit's lane is free and the row has no segment that starts in that lane.
C7_RootFreesLane ==
    (pc \in {"row", "done"} /\ commits # <<>> /\ commits[Len(commits)].parents = <<>>) =>
        LET node == commits[Len(commits)].graph IN
            /\ lanes[node.lane + 1] = NULL
            /\ \A n \in DOMAIN node.lines : node.lines[n].from # node.lane

\* C7 witness: the row of a root commit that had been given a lane by a child
\* has just been processed while another lane is held.
C7_Witness ==
    /\ pc = "row"
    /\ commits # <<>>
    /\ commits[Len(commits)].parents = <<>>
    /\ ~commits[Len(commits)].graph.isFirstInLane
    /\ \E a \in DOMAIN lanes : lanes[a] # NULL

\* k is the lowest free index of ls, or its length when no slot is free, and
\* ls2 has a slot more than ls only in the second case
LowestFree(ls, ls2, k) ==
    IF \E a \in DOMAIN ls : ls[a] = NULL
    THEN /\ k < Len(ls)
         /\ ls[k + 1] = NULL
         /\ \A j \in 0..(k - 1) : ls[j + 1] # NULL
         /\ Len(ls2) = Len(ls)
    ELSE /\ k = Len(ls)
         /\ Len(ls2) = Len(ls) + 1

C9_MaxLaneWithinOccupancy ==
    pc = "done" => maxLane <= maxOccupied

\* C9 witness: the pass has returned, lanes were freed and reused, and more
\* rows were processed than lanes were ever held together.
C9_Witness ==
    /\ pc = "done"
    /\ maxLane >= 1
    /\ Len(commits) > maxOccupied

\* The whole input is a straight chain: every commit is the only parent of
\* the one before, the last one is a root, and no commit occurs twice
IsChain(rc) ==
    /\ Len(rc) >= 1
    /\ Distinct(rc)
    /\ \A k \in 1..(Len(rc) - 1) : rc[k].parents = <<rc[k + 1].sha>>
    /\ rc[Len(rc)].parents = <<>>

\* C10: for a straight chain ending in a root every node has lane 0 and the
\* colour of the first commit, only the first node has isFirstInLane, every
\* row but the root's has the single segment {0, 0, colour} and the root's
\* has none, and maxLane is 0.
C10_StraightChain ==
    (pc = "done" /\ IsChain(rawCommits)) =>
        /\ Len(commits) = Len(rawCommits)
        /\ maxLane = 0
        /\ \A k \in DOMAIN commits :
              /\ commits[k].graph.lane = 0
              /\ commits[k].graph.color = commits[1].graph.color
              /\ commits[k].graph.isFirstInLane = (k = 1)
              /\ Lines(k) = IF k < Len(commits)
                            THEN <<[from |-> 0, to |-> 0,
                                    color |-> commits[1].graph.color]>>
                            ELSE <<>>

\* C10 witness: the pass has returned for a chain of at least three commits.
C10_Witness ==
    pc = "done" /\ IsChain(rawCommits) /\ Len(rawCommits) >= 3

\* The identifiers the rows before row k mention, as a commit or as a parent:
\* the identifiers that have a lane when row k begins
Before(k) == Mentioned(SubSeq(rawCommits, 1, k - 1))

Inherits(k, j) ==
    /\ k < j
    /\ commits[k].parents # <<>>
    /\ commits[k].parents[1] = commits[j].sha
    /\ commits[j].sha \notin Before(k)

\* C12: a parent that inherited the lane of a child has, in its own row, the
\* lane and the colour of that child.
C12_LineageColour ==
    \A k, j \in DOMAIN commits :
        Inherits(k, j) =>
            /\ commits[j].graph.lane = commits[k].graph.lane
            /\ commits[j].graph.color = commits[k].graph.color

\* C12 witness: a commit in a colour other than the first one has handed its
\* lane to its first parent, and that parent has been processed.
C12_Witness ==
    \E k, j \in DOMAIN commits : Inherits(k, j) /\ commits[k].graph.color # 0

C14_PrefixStable ==
    (pc = "done" /\ results # <<>>) =>
        /\ Len(commits) = Len(filteredCommits)
        /\ Len(filteredCommits) <= Len(results[1].commits)
        /\ filteredCommits = SubSeq(results[1].input, 1, Len(filteredCommits))
        /\ commits = SubSeq(results[1].commits, 1, Len(filteredCommits))

\* C14 witness: a call on a proper prefix of two rows has returned, and in
\* the whole list a later row draws a line to a lane of the prefix.
C14_Witness ==
    /\ pc = "done"
    /\ results # <<>>
    /\ Len(filteredCommits) = 2
    /\ Len(results[1].input) = 3
    /\ results[1].commits[3].graph.lines # <<>>

\* C15: computeGraph returns for every finite list, and what it returns has
\* one node per row of the list, in the order of the list, each with the sha
\* and the parents of its row.
C15_OneNodePerRow ==
    /\ [](pc = "done" =>
            /\ Len(commits) = Len(rawCommits)
            /\ \A k \in DOMAIN commits :
                  /\ commits[k].sha = rawCommits[k].sha
                  /\ commits[k].parents = rawCommits[k].parents)
    /\ <>(pc = "done")

\* C15 witness: the pass has returned for a list of three rows, one of them
\* a merge commit.
C15_Witness ==
    /\ pc = "done"
    /\ Len(rawCommits) = 3
    /\ Len(commits) = 3
    /\ \E k \in DOMAIN commits : Len(commits[k].parents) >= 2

\* C16: on an empty list computeGraph returns an empty list of commits and
\* maxLane = 0.
C16_EmptyInput ==
    (pc = "done" /\ rawCommits = <<>>) =>
        (commits = <<>> /\ maxLane = 0 /\ lanes = <<>> /\ colorIndex = 0)

\* C16 witness: the pass has returned without having taken a row.
C16_Witness ==
    pc = "done" /\ rawCommits = <<>> /\ commits = <<>>

\* Two characters are the same letter, whatever their case
SameLetter(c, d) ==
    c = d \/ {c, d} = {"a", "A"} \/ {c, d} = {"b", "B"}

\* The text holds the query somewhere, ignoring case
HoldsIgnoringCase(text, q) ==
    \E k \in 0..(Len(text) - Len(q)) :
        \A j \in 1..Len(q) : SameLetter(text[k + j], q[j])

\* The fetched rows whose subject, author or sha holds the search string
Found ==
    {k \in DOMAIN fetched :
        \/ HoldsIgnoringCase(fetched[k].subject, search)
        \/ HoldsIgnoringCase(fetched[k].author, search)
        \/ HoldsIgnoringCase(shaString(fetched[k].sha), search)}

\* C17: with a non-empty search string getCommits returns exactly the
\* fetched commits whose subject, author or sha holds the string ignoring
\* case, in fetched order, and the graph is the graph of that list alone: a
\* returned commit has isFirstInLane = false only if an earlier returned
\* commit names it as a parent.
C17_SearchFilter ==
    (pc = "done" /\ search # <<>>) =>
        /\ Len(commits) = Cardinality(Found)
        /\ \A k \in DOMAIN commits :
              \E f \in Found :
                  /\ Cardinality({g \in Found : g <= f}) = k
                  /\ commits[k].sha = fetched[f].sha
                  /\ commits[k].parents = fetched[f].parents
        /\ \A k \in DOMAIN commits :
              commits[k].graph.isFirstInLane
                  = ~(\E j \in 1..(k - 1) :
                          commits[k].sha \in Range(commits[j].parents))

\* C17 witness: a search has returned a commit found by its upper-case
\* subject or author and has dropped the commit before it, which names the
\* returned one as a parent.
C17_Witness ==
    /\ pc = "done"
    /\ search # <<>>
    /\ Len(fetched) = 2
    /\ Len(commits) = 1
    /\ commits[1].sha = fetched[2].sha
    /\ commits[1].sha \in Range(fetched[1].parents)
    /\ ~(\/ includes(fetched[2].subject, toLowerCase(search))
         \/ includes(fetched[2].author, toLowerCase(search))
         \/ includes(shaString(fetched[2].sha), toLowerCase(search)))

\* The commits row k's j-th parent comes after: those of the rows before,
\* the row's own, and the parents before it in the row
SeenBefore(k, j) ==
    Before(k) \cup {rawCommits[k].sha}
              \cup {rawCommits[k].parents[m] : m \in 1..(j - 1)}

\* The new lineages so far: rows that no earlier row mentions, and handled
\* non-first merge parents that nothing before them mentions
Allocations ==
    Cardinality({k \in DOMAIN rawCommits : rawCommits[k].sha \notin Before(k)})
    + Cardinality({kj \in UNION {{<<k, j>> : j \in 2..Len(rawCommits[k].parents)} :
                                    k \in DOMAIN rawCommits} :
          /\ \/ kj[1] < Len(rawCommits)
             \/ pc \in {"push", "row", "done"}
             \/ pc = "others" /\ kj[2] <= i
          /\ rawCommits[kj[1]].parents[kj[2]] \notin SeenBefore(kj[1], kj[2])})

\* A step takes up a row whose commit has no lane yet
NewHead ==
    /\ pc = "row"
    /\ pc' = "passthrough"
    /\ rawCommits'[Len(rawCommits')].sha \notin DOMAIN shaToLane

\* A step handles a non-first merge parent that has no lane yet
NewMergeParent ==
    /\ pc = "others"
    /\ i' = i + 1
    /\ raw.parents[i + 1] \notin DOMAIN shaToLane

C18_Step ==
    /\ colorIndex' # colorIndex => (NewHead \/ NewMergeParent)
    /\ NewHead =>
          /\ colorIndex' = colorIndex + 1
          /\ shaToColor'[rawCommits'[Len(rawCommits')].sha] = colorIndex % Len(graphColors)
          /\ color' = colorIndex % Len(graphColors)
    /\ NewMergeParent =>
          /\ colorIndex' = colorIndex + 1
          /\ shaToColor'[raw.parents[i + 1]] = colorIndex % Len(graphColors)
    /\ (pc = "parents" /\ pc' # pc) => colorIndex' = colorIndex

\* C18: the colour counter advances, by one, exactly when a row's commit
\* has no lane yet or a non-first merge parent has no lane yet; the commit
\* that takes the n-th such allocation (from 0) gets colour n mod 8; the
\* first-parent step (inheriting or converging) and a line to a parent that
\* has a lane leave the counter alone, so the counter is the number of new
\* lineages so far.
C18_ColourCounter == [](colorIndex = Allocations) /\ [][C18_Step]_vars

\* C18 witness: the palette has wrapped: the ninth new lineage, a new merge
\* parent, took colour 0 again, after a first parent that inherited.
C18_Witness ==
    /\ pc = "others"
    /\ i = 3
    /\ colorIndex = 9
    /\ shaToColor[raw.parents[3]] = 0
    /\ raw.parents[3] \in shaAssignedByParent
    /\ shaToColor[raw.parents[1]] = color

\* Right after the pass-through loop the row holds one straight segment per
\* held lane other than the row's own, in the colour of the lane's holder
C19_AfterLoop ==
    pc = "parents" =>
        /\ \A n \in DOMAIN graphLines :
              /\ graphLines[n].from = graphLines[n].to
              /\ graphLines[n].from \in 0..(Len(lanes) - 1)
        /\ \A a \in 0..(Len(lanes) - 1) :
              LET segs == {n \in DOMAIN graphLines : graphLines[n].from = a}
              IN  IF lanes[a + 1] # NULL /\ a # lane
                  THEN /\ Cardinality(segs) = 1
                       /\ lanes[a + 1] \in DOMAIN shaToColor
                       /\ \A n \in segs :
                             graphLines[n].color = shaToColor[lanes[a + 1]]
                  ELSE segs = {}

\* The parent steps only add segments that start at the row's own lane, and
\* the row is stored with the segments and the lane it has then
C19_Kept ==
    /\ pc \in {"parents", "others"} =>
          /\ Len(graphLines') >= Len(graphLines)
          /\ SubSeq(graphLines', 1, Len(graphLines)) = graphLines
          /\ \A n \in (Len(graphLines) + 1)..Len(graphLines') :
                graphLines'[n].from = lane
          /\ lane' = lane
    /\ (pc = "push" /\ pc' = "row") =>
          /\ commits'[Len(commits')].graph.lines = graphLines
          /\ commits'[Len(commits')].graph.lane = lane

\* C19: every row holds, for each lane other than its own that holds an
\* identifier when the row is processed, exactly one segment {from: i, to:
\* i, color: the colour of that identifier}, and no segment starting at
\* another lane for a free lane or for its own lane.
C19_PassThroughLines == []C19_AfterLoop /\ [][C19_Kept]_vars

\* C19 witness: a stored row holds a pass-through segment whose colour is
\* not the colour of the row's commit.
C19_Witness ==
    \E k \in DOMAIN commits : \E n \in DOMAIN Lines(k) :
        /\ Lines(k)[n].from = Lines(k)[n].to
        /\ Lines(k)[n].from # commits[k].graph.lane
        /\ Lines(k)[n].color # commits[k].graph.color

\* The first-parent step of a row, whether the row has one parent or more
C20_Step ==
    (pc = "parents" /\ raw.parents # <<>>) =>
        LET p == raw.parents[1] IN
        IF p \in DOMAIN shaToLane
        THEN /\ graphLines' = Append(graphLines,
                    [from |-> lane, to |-> shaToLane[p], color |-> color])
             /\ lanes' = [lanes EXCEPT ![lane + 1] = NULL]
             /\ shaToLane' = shaToLane
             /\ shaToColor' = shaToColor
             /\ shaAssignedByParent' = shaAssignedByParent
        ELSE /\ graphLines' = Append(graphLines,
                    [from |-> lane, to |-> lane, color |-> color])
             /\ lanes' = [lanes EXCEPT ![lane + 1] = p]
             /\ shaToLane' = shaToLane @@ (p :> lane)
             /\ shaToColor' = shaToColor @@ (p :> color)
             /\ shaAssignedByParent' = shaAssignedByParent \cup {p}

\* A stored row whose first parent had a lane holds the segment to that lane
C20_RowHoldsSegment ==
    \A k \in DOMAIN commits :
        (/\ commits[k].parents # <<>>
         /\ commits[k].parents[1] \in Before(k) \cup {commits[k].sha}) =>
            Count(k, [from |-> commits[k].graph.lane,
                      to |-> shaToLane[commits[k].parents[1]],
                      color |-> commits[k].graph.color]) >= 1

\* C20: when the only parent of a commit c, or the first parent of a merge
\* commit c, already has a lane, the step adds the segment {from: c's lane,
\* to: the parent's lane, color: c's colour} and the row is stored with it,
\* c's lane is marked free at that step, and the lane and colour recorded
\* for the parent do not change; the step is the same for one parent and
\* for the first of several.
C20_Convergence == []C20_RowHoldsSegment /\ [][C20_Step]_vars

\* C20 witness: a merge commit has converged onto the lane its first parent
\* already had, and its own lane is free.
C20_Witness ==
    /\ pc = "others"
    /\ i = 1
    /\ lanes[lane + 1] = NULL
    /\ graphLines[Len(graphLines)].from = lane
    /\ graphLines[Len(graphLines)].to # lane
    /\ graphLines[Len(graphLines)].to = shaToLane[raw.parents[1]]

\* The commits referenced as a parent before the j-th parent of the row
\* being processed: by the rows before, or earlier in the row's parent list
ReferencedBefore(j) ==
    UNION {Range(rawCommits[k].parents) : k \in 1..(Len(rawCommits) - 1)}
        \cup {raw.parents[m] : m \in 1..(j - 1)}

\* The position in the parent list of the reference the step handles, 0 if
\* the step handles none
Handled ==
    IF pc = "parents" /\ raw.parents # <<>> THEN 1
    ELSE IF pc = "others" /\ i < Len(raw.parents) THEN i + 1
    ELSE 0

C21_Step ==
    (Handled # 0 /\ raw.parents[Handled] \in ReferencedBefore(Handled)) =>
        LET p == raw.parents[Handled] IN
        /\ p \in DOMAIN shaToLane
        /\ shaToLane' = shaToLane
        /\ shaToColor' = shaToColor
        /\ shaAssignedByParent' = shaAssignedByParent
        /\ colorIndex' = colorIndex
        /\ Len(lanes') = Len(lanes)
        /\ \A a \in DOMAIN lanes : lanes'[a] \in {lanes[a], NULL}
        /\ Len(graphLines') = Len(graphLines) + 1
        /\ SubSeq(graphLines', 1, Len(graphLines)) = graphLines
        /\ graphLines'[Len(graphLines')].from = lane
        /\ graphLines'[Len(graphLines')].to = shaToLane[p]

\* A commit is never held by two slots of the lane table
C21_OneLane ==
    \A p \in DOMAIN shaToLane :
        Cardinality({a \in DOMAIN lanes : lanes[a] = p}) <= 1

\* C21: a commit referenced as a parent several times gets one lane: every
\* reference after the first, as a first parent or as a non-first parent,
\* leaves the lane map, the colour map, the pre-assigned set and the colour
\* counter unchanged, puts no commit in a lane, and adds one segment from
\* the row's lane to the lane the commit already has.
C21_LaterReferences == []C21_OneLane /\ [][C21_Step]_vars

\* C21 witness: a commit that took its lane as a first parent has been
\* referenced again as a non-first parent of a later row, and the row has
\* the segment to its lane.
C21_Witness ==
    /\ pc = "others"
    /\ i = 2
    /\ raw.parents[2] \in shaAssignedByParent
    /\ raw.parents[2] # raw.parents[1]
    /\ \E k \in 1..(Len(rawCommits) - 1) :
          /\ rawCommits[k].parents # <<>>
          /\ rawCommits[k].parents[1] = raw.parents[2]
    /\ graphLines[Len(graphLines)].to = shaToLane[raw.parents[2]]
    /\ lanes[shaToLane[raw.parents[2]] + 1] = raw.parents[2]

\* The parents the pass has handled so far: those of the rows before, and
\* those of the row being processed up to where the pass stands
HandledParents ==
    IF rawCommits = <<>> THEN {}
    ELSE UNION {Range(rawCommits[k].parents) : k \in 1..(Len(rawCommits) - 1)}
         \cup {raw.parents[m] :
                  m \in 1..(CASE pc \in {"passthrough", "parents"} -> 0
                              [] pc = "others" -> i
                              [] OTHER -> Len(raw.parents))}

\* C22: with distinct commit ids, a parent that has been given a lane and
\* whose own row has not come yet holds that lane in the lane table at
\* every step: the slot is not freed and no other commit is put in it.
C22_ReservedLaneHeld ==
    Distinct(rawCommits) =>
        \A p \in HandledParents \ Shas(rawCommits) :
            /\ p \in DOMAIN shaToLane
            /\ lanes[shaToLane[p] + 1] = p

\* C22 witness: a parent given a lane by the first row was drawn in the
\* third row in that lane, after a second row with parents of its own.
C22_Witness ==
    /\ Len(commits) = 3
    /\ commits[3].sha \in Range(commits[1].parents)
    /\ commits[3].sha \notin Range(commits[2].parents)
    /\ commits[2].parents # <<>>
    /\ commits[2].graph.lane # commits[3].graph.lane
    /\ ~commits[3].graph.isFirstInLane

\* C23: with distinct commit ids, a commit whose node has isFirstInLane =
\* false is not in the first row, and the row right before it holds a
\* segment that ends in the commit's lane.
C23_UpwardContinuity ==
    Distinct(rawCommits) =>
        \A k \in DOMAIN commits :
            ~commits[k].graph.isFirstInLane =>
                /\ k > 1
                /\ \E n \in DOMAIN Lines(k - 1) :
                      Lines(k - 1)[n].to = commits[k].graph.lane

\* C23 witness: a commit given a lane by the first row is drawn in the third
\* row, and the second row carries its lane as a pass-through segment.
C23_Witness ==
    /\ Len(commits) = 3
    /\ ~commits[3].graph.isFirstInLane
    /\ commits[3].sha \in Range(commits[1].parents)
    /\ commits[3].sha \notin Range(commits[2].parents)
    /\ \E n \in DOMAIN Lines(2) :
          /\ Lines(2)[n].from = commits[3].graph.lane
          /\ Lines(2)[n].to = commits[3].graph.lane
          /\ commits[2].graph.lane # commits[3].graph.lane

\* Every commit of the list comes before all of its parents
ChildrenFirst(rc) ==
    \A k, j \in DOMAIN rc : rc[j].sha \in Range(rc[k].parents) => k < j

\* Row k + 1 takes up what ends in lane l: its commit sits there or one of
\* its segments starts there
Continued(k, l) ==
    \/ commits[k + 1].graph.lane = l
    \/ \E n \in DOMAIN Lines(k + 1) : Lines(k + 1)[n].from = l

\* C24: with distinct commit ids and every commit before all of its parents,
\* every segment of a row that ends in lane L is continued in the next row,
\* when there is one: the next commit sits in L or the next row has a
\* segment that starts in L.
C24_DownwardContinuity ==
    (Distinct(rawCommits) /\ ChildrenFirst(rawCommits)) =>
        \A k \in 1..(Len(commits) - 1) :
            \A n \in DOMAIN Lines(k) : Continued(k, Lines(k)[n].to)

\* C24 witness: a row has a segment that leaves its own lane for the lane
\* of a parent, the next row is another commit and carries that lane as a
\* pass-through segment, and the parent is drawn after it.
C24_Witness ==
    /\ Len(commits) = 3
    /\ Distinct(rawCommits)
    /\ ChildrenFirst(rawCommits)
    /\ \E n \in DOMAIN Lines(1) :
          /\ Lines(1)[n].from # Lines(1)[n].to
          /\ commits[2].graph.lane # Lines(1)[n].to
          /\ commits[3].graph.lane = Lines(1)[n].to
          /\ \E m \in DOMAIN Lines(2) :
                Lines(2)[m].from = Lines(1)[n].to /\ Lines(2)[m].to = Lines(1)[n].to

\* The pass has just handled a non-first parent that nothing before it in
\* the input mentions: the parent was given a new lane
JustAllocated ==
    /\ pc = "others"
    /\ i >= 2
    /\ raw.parents[i] \notin SeenBefore(Len(rawCommits), i)

\* C25 as stated: the lane newly allocated for a non-first parent of a merge
\* commit is never the merge commit's own lane.
C25_NewLaneNeverOwn ==
    JustAllocated => shaToLane[raw.parents[i]] # lane

\* C25 as amended: the connector of a newly allocated non-first parent is
\* {from: c.lane, to: new lane, color: new color}, and the new lane is the
\* merge commit's own lane only if the first parent already had a lane, so
\* that the commit's lane was freed before the allocation.
C25_NewLaneOwnOnlyIfFreed ==
    JustAllocated =>
        /\ graphLines[Len(graphLines)] =
              [from |-> lane, to |-> shaToLane[raw.parents[i]],
               color |-> shaToColor[raw.parents[i]]]
        /\ shaToLane[raw.parents[i]] = lane =>
              raw.parents[1] \in SeenBefore(Len(rawCommits), 1)

\* C25 witness: a merge commit converged onto the lane its first parent
\* had, and its second parent, not seen before, was given the commit's lane.
C25_Witness ==
    /\ JustAllocated
    /\ i = 2
    /\ shaToLane[raw.parents[2]] = lane
    /\ lanes[lane + 1] = raw.parents[2]
    /\ raw.parents[1] \in Before(Len(rawCommits))
    /\ graphLines[Len(graphLines)].from = graphLines[Len(graphLines)].to

\* C26: in what a call returns, the lane of every node and the from and to
\* of every segment lie in 0..maxLane.
C26_WithinWidth ==
    pc = "done" =>
        \A k \in DOMAIN commits :
            /\ commits[k].graph.lane \in 0..maxLane
            /\ \A n \in DOMAIN Lines(k) :
                  /\ Lines(k)[n].from \in 0..maxLane
                  /\ Lines(k)[n].to \in 0..maxLane

\* C26 witness: the call returns a row with a segment that ends in the
\* highest lane, a lane that is free at the end of the pass.
C26_Witness ==
    /\ pc = "done"
    /\ maxLane >= 1
    /\ lanes[maxLane + 1] = NULL
    /\ \E k \in DOMAIN commits : \E n \in DOMAIN Lines(k) :
          /\ Lines(k)[n].to = maxLane
          /\ Lines(k)[n].from # maxLane

\* The ports the server may use
Ports == startPort..maxPort

\* C27: the ports passed to listen are 44100, 44101, ... one after the other
\* and never above 44200; each is tried only after the one before failed
\* with EADDRINUSE; a listening server listens on the lowest port of
\* 44100..44200 that is not in use; the process has exited with status 1
\* once every port was found in use or another server error occurred.
C27_PortSearch ==
    /\ \A k \in DOMAIN tried : tried[k] = startPort + k - 1 /\ tried[k] <= maxPort
    /\ \A k \in 1..(Len(tried) - 1) : tried[k] \in inUse
    /\ inUse \subseteq Range(tried)
    /\ serverState # "created" => currentPort = tried[Len(tried)]
    /\ serverState = "binding" => currentPort \notin inUse
    /\ serverState = "listening" =>
          /\ currentPort \in Ports \ inUse
          /\ \A p \in Ports : p < currentPort => p \in inUse
    /\ (inUse = Ports \/ errCode = "other") <=> serverState = "exited"
    /\ serverState = "exited" <=> exitCode = 1

\* C27 witness: the first two ports were in use and the server listens on
\* the third.
C27_Witness ==
    /\ serverState = "listening"
    /\ currentPort = startPort + 2
    /\ inUse = {startPort, startPort + 1}

\* The request issued last
LastIssued == issued[Len(issued)]

\* C28: when the call issued last was issued while another call was waiting
\* for its fetch, then once no call is waiting state.commits and
\* state.maxLane are the answer to the request issued last, which is the
\* request for state.filter and state.search.
C28_LatestRequestWins ==
    (inFlight = {} /\ Len(issued) >= 2 /\ LastIssued.overlaps) =>
        /\ LastIssued.ref = refOf(state.filter)
        /\ LastIssued.search = state.search
        /\ state.commits = Response(LastIssued.ref, LastIssued.search).commits
        /\ state.maxLane = Response(LastIssued.ref, LastIssued.search).maxLane

\* C29: at every step the lane map and the colour map have the same keys,
\* every identifier in a slot of the lane table is one of them, and the
\* lane map sends the identifier in slot i to i; so every colour lookup of
\* the pass finds its key.
C29_MapsAgree ==
    /\ DOMAIN shaToLane = DOMAIN shaToColor
    /\ \A a \in DOMAIN lanes :
          lanes[a] # NULL =>
              /\ lanes[a] \in DOMAIN shaToLane
              /\ shaToLane[lanes[a]] = a - 1
    /\ pc \notin {"row", "done"} => raw.sha \in DOMAIN shaToColor

\* C29 witness: a parent that inherited its lane holds it while another
\* commit with a lane and a colour of its own is being drawn.
C29_Witness ==
    /\ pc = "parents"
    /\ \E a \in DOMAIN lanes :
          /\ lanes[a] \in shaAssignedByParent
          /\ lanes[a] # raw.sha
          /\ shaToColor[lanes[a]] # color
          /\ shaToLane[lanes[a]] # lane

\* The number of pass-through segments of row k: what comes before the
\* segments of its parents
Through(k) == Len(Lines(k)) - Len(commits[k].parents)

====
